---- MODULE Spec2Model ----
(***************************************************************************)
(* A model of the CADGen-AI parameter-extraction pipeline:                 *)
(*   src/src/generator.py   the Pattern Extractor (parse_description)      *)
(*   src/src/validator.py   the Schema Validator (validate_params)         *)
(*   src/src/llm_client.py  the Generative Extractor (LocalLLMClient)      *)
(*   src/src/cli.py         the command-line orchestrator (main)           *)
(*   src/frontend/app.py    the chat front-end's parser selection          *)
(*   src/src/dxf_creator.py the drawing emitter (create_from_params)       *)
(*                                                                         *)
(* Texts.  A Python str is modelled as a sequence of atoms [s, n]: the     *)
(* first n characters of the brace-free, quote-free character run named s. *)
(* The structural characters { } " : , [ ] are atoms of one character, so  *)
(* the brace scan and the slice raw_output[:500] work on characters while  *)
(* a long run of filler text is still a single atom.                       *)
(*                                                                         *)
(* Values.  A Python value is a pair <<kind, value>>: the Python type      *)
(* ("int", "real", "bool", "str", "list", "dict", "null") and the value; a *)
(* real is held in tenths (4.5 is 45).  A dict is a function from its keys *)
(* to values.                                                              *)
(***************************************************************************)
EXTENDS Integers, Sequences, FiniteSets, TLC

VARIABLES
    pc,          \* position of the running entry point
    args,        \* the parsed command line, or the front-end's selection
    env,         \* what is installed and whether the model can be loaded
    client,      \* the LocalLLMClient the run constructed, if any
    gen,         \* the outcome of the _generate call, if it was made
    params,      \* the ParameterSet the orchestrator holds
    pre_errors,  \* validation_errors as it was when the validation step began
    json_output, \* the ParameterSet emitted as JSON
    dxf,         \* the outcome of create_from_params
    exit_code,   \* what main returned
    current_design,    \* ConversationManager.current_design
    parameters_stack,  \* ConversationManager.parameters_stack
    text_in,     \* argument of a direct call of _extract_json_balanced
    text_out,    \* its result
    call_in,     \* arguments of a direct call of another function
    call_out,    \* what the call returned
    rng          \* state of torch's global random number generator

vars == <<pc, args, env, client, gen, params, pre_errors, json_output, dxf,
          exit_code, current_design, parameters_stack, text_in, text_out,
          call_in, call_out, rng>>

(***************************************************************************)
(* Optional values (Python's None against a value).                        *)
(***************************************************************************)
None == [some |-> FALSE]
Some(x) == [some |-> TRUE, v |-> x]

(***************************************************************************)
(* Python values.                                                          *)
(***************************************************************************)
IntV(i) == <<"int", i>>
RealV(tenths) == <<"real", tenths>>
BoolV(b) == <<"bool", b>>
StrV(s) == <<"str", s>>
ListV(l) == <<"list", l>>
DictV(d) == <<"dict", d>>
NullV == <<"null">>
\* a str held as a text (a sequence of atoms) rather than by its name
TextV(text) == <<"text", text>>
Kind(val) == val[1]
Val(val) == val[2]

EmptyDict == [key \in {} |-> NullV]
DictSet(d, key, val) ==
    [x \in DOMAIN d \cup {key} |-> IF x = key THEN val ELSE d[x]]

(***************************************************************************)
(* Texts.                                                                  *)
(***************************************************************************)
Ch(c) == [s |-> c, n |-> 1]
Run(name, len) == [s |-> name, n |-> len]
LBRACE == Ch("{")
RBRACE == Ch("}")
QUOTE == Ch("\"")
COLON == Ch(":")
COMMA == Ch(",")
LBRACKET == Ch("[")
RBRACKET == Ch("]")

RECURSIVE TextLen(_)
TextLen(text) ==
    IF text = <<>> THEN 0 ELSE Head(text).n + TextLen(Tail(text))

\* text[:limit]
RECURSIVE Slice(_, _)
Slice(text, limit) ==
    IF text = <<>> \/ limit <= 0 THEN <<>>
    ELSE IF Head(text).n <= limit
         THEN <<Head(text)>> \o Slice(Tail(text), limit - Head(text).n)
         ELSE <<Run(Head(text).s, limit)>>

\* text.find('{'), 0 when there is none (positions are counted from 1)
RECURSIVE FindBrace(_, _)
FindBrace(text, i) ==
    IF i > Len(text) THEN 0
    ELSE IF text[i] = LBRACE THEN i ELSE FindBrace(text, i + 1)

\* a scan that stops at the first closing brace whatever the nesting
ScanToFirstClose(text, start, i, brace_count) ==
    LET S == {j \in i..Len(text) : text[j] = RBRACE}
    IN  IF S = {} THEN None
        ELSE Some(SubSeq(text, start, CHOOSE j \in S : \A m \in S : j <= m))

\* the for loop of _extract_json_balanced, from position i with the counter
\* at brace_count
RECURSIVE ScanBraces(_, _, _, _)
ScanBraces(text, start, i, brace_count) ==
    IF i > Len(text) THEN None
    ELSE IF text[i] = LBRACE
         THEN ScanBraces(text, start, i + 1, brace_count + 1)
    ELSE IF text[i] = RBRACE
         THEN IF brace_count - 1 = 0
              THEN Some(SubSeq(text, start, i))
              ELSE ScanBraces(text, start, i + 1, brace_count - 1)
    ELSE ScanBraces(text, start, i + 1, brace_count)

_extract_json_balanced(text) ==
    LET start == FindBrace(text, 1)
    IN  IF start = 0 THEN None ELSE ScanBraces(text, start, start, 0)

(***************************************************************************)
(* json.loads on the extracted substring: a recursive-descent parse of the *)
(* atoms.  A result is [ok, v, i] (the value and the position after it) or *)
(* [ok, why, i] (the JSONDecodeError's message and position).              *)
(***************************************************************************)
EOT == [s |-> "", n |-> 0]
At(text, i) == IF i >= 1 /\ i <= Len(text) THEN text[i] ELSE EOT

Parsed(val, next) == [ok |-> TRUE, v |-> val, i |-> next]
DecodeError(msg, pos) == [ok |-> FALSE, why |-> msg, i |-> pos]

\* the number literals the model's responses use, with the Python value each
\* one denotes
NumberLiteral ==
    [lit \in {"200", "100", "150", "4", "0", "-5", "4.5", "4.0"} |->
        CASE lit = "200" -> IntV(200)
          [] lit = "100" -> IntV(100)
          [] lit = "150" -> IntV(150)
          [] lit = "4" -> IntV(4)
          [] lit = "0" -> IntV(0)
          [] lit = "-5" -> IntV(-5)
          [] lit = "4.5" -> RealV(45)
          [] lit = "4.0" -> RealV(40)]

RECURSIVE FindQuote(_, _)
FindQuote(text, i) ==
    IF i > Len(text) THEN 0
    ELSE IF text[i] = QUOTE THEN i ELSE FindQuote(text, i + 1)

RECURSIVE StrOf(_)
StrOf(atoms) ==
    IF atoms = <<>> THEN "" ELSE Head(atoms).s \o StrOf(Tail(atoms))

\* a string literal opening at position i
ParseString(text, i) ==
    LET close == FindQuote(text, i + 1)
    IN  IF close = 0
        THEN DecodeError("Unterminated string starting at", i)
        ELSE Parsed(StrOf(SubSeq(text, i + 1, close - 1)), close + 1)

RECURSIVE ParseValue(_, _)
RECURSIVE ParseMembers(_, _, _)
RECURSIVE ParseItems(_, _, _)

ParseValue(text, i) ==
    LET a == At(text, i)
    IN  IF a = QUOTE
        THEN LET r == ParseString(text, i)
             IN  IF r.ok THEN Parsed(StrV(r.v), r.i) ELSE r
        ELSE IF a = LBRACE
        THEN IF At(text, i + 1) = RBRACE
             THEN Parsed(DictV(EmptyDict), i + 2)
             ELSE ParseMembers(text, i + 1, EmptyDict)
        ELSE IF a = LBRACKET
        THEN IF At(text, i + 1) = RBRACKET
             THEN Parsed(ListV(<<>>), i + 2)
             ELSE ParseItems(text, i + 1, <<>>)
        ELSE IF a.s \in DOMAIN NumberLiteral
        THEN Parsed(NumberLiteral[a.s], i + 1)
        ELSE IF a.s = "true" THEN Parsed(BoolV(TRUE), i + 1)
        ELSE IF a.s = "false" THEN Parsed(BoolV(FALSE), i + 1)
        ELSE IF a.s = "null" THEN Parsed(NullV, i + 1)
        ELSE DecodeError("Expecting value", i)

\* the members of an object from position i, d holding the members read so
\* far (a repeated key keeps its last value)
ParseMembers(text, i, d) ==
    IF At(text, i) # QUOTE
    THEN DecodeError("Expecting property name enclosed in double quotes", i)
    ELSE LET key == ParseString(text, i)
         IN  IF ~key.ok THEN key
             ELSE IF At(text, key.i) # COLON
             THEN DecodeError("Expecting ':' delimiter", key.i)
             ELSE LET val == ParseValue(text, key.i + 1)
                  IN  IF ~val.ok THEN val
                      ELSE IF At(text, val.i) = COMMA
                      THEN ParseMembers(text, val.i + 1,
                                        DictSet(d, key.v, val.v))
                      ELSE IF At(text, val.i) = RBRACE
                      THEN Parsed(DictV(DictSet(d, key.v, val.v)), val.i + 1)
                      ELSE DecodeError("Expecting ',' delimiter", val.i)

ParseItems(text, i, l) ==
    LET val == ParseValue(text, i)
    IN  IF ~val.ok THEN val
        ELSE IF At(text, val.i) = COMMA
        THEN ParseItems(text, val.i + 1, Append(l, val.v))
        ELSE IF At(text, val.i) = RBRACKET
        THEN Parsed(ListV(Append(l, val.v)), val.i + 1)
        ELSE DecodeError("Expecting ',' delimiter", val.i)

json_loads(text) ==
    LET r == ParseValue(text, 1)
    IN  IF r.ok /\ r.i <= Len(text) THEN DecodeError("Extra data", r.i) ELSE r

(***************************************************************************)
(* validator.py.  An error message is <<"error", text, field, val>>: the   *)
(* fixed text of the message, the field it names and the value or type it  *)
(* quotes.                                                                 *)
(***************************************************************************)
Msg(text, field, val) == <<"error", text, field, val>>

VALID_TYPES ==
    {"rectangular", "square", "flange", "l_bracket", "t_bracket",
     "triangular", "unknown"}

\* type(value).__name__
TypeName(val) ==
    CASE Kind(val) = "real" -> "float"
      [] Kind(val) = "text" -> "str"
      [] Kind(val) = "null" -> "NoneType"
      [] OTHER -> Kind(val)

\* value < 0 for a value Python can order against 0 (False is 0, True is 1)
Negative(val) == Kind(val) \in {"int", "real"} /\ Val(val) < 0

Valid == [is_valid |-> TRUE, errors |-> <<>>]
\* a rejection that loses its messages
InvalidWithoutErrors(errs) == [is_valid |-> FALSE, errors |-> <<>>]
Invalid(errs) == [is_valid |-> FALSE, errors |-> errs]

\* the error lists Check gives for each field of fields, in order
RECURSIVE ForEachField(_, _, _)
ForEachField(Check(_, _), d, fields) ==
    IF fields = <<>> THEN <<>>
    ELSE Check(d, Head(fields)) \o ForEachField(Check, d, Tail(fields))

\* CAD_PARAMS_SCHEMA: the properties in the order the schema lists them, and
\* the keywords of each
SchemaProperties ==
    <<"type", "width", "height", "outer_diameter", "inner_diameter",
      "hole_count", "hole_diameter", "corner_offset", "center_hole_diameter",
      "pcd", "fillet_radius", "features">>

SchemaType(field) ==
    CASE field = "type" -> "string"
      [] field = "hole_count" -> "integer"
      [] field = "features" -> "array"
      [] OTHER -> "number"

\* jsonschema's is_type: a bool is neither a number nor an integer, and a
\* real with no fractional part is an integer
IsSchemaType(val, type) ==
    CASE type = "string" -> Kind(val) = "str"
      [] type = "array" -> Kind(val) = "list"
      [] type = "number" -> Kind(val) \in {"int", "real"}
      [] type = "integer" ->
            \/ Kind(val) = "int"
            \/ Kind(val) = "real" /\ Val(val) % 10 = 0

\* the errors jsonschema finds at one property: its type, enum and minimum
\* keywords are each checked
PropertyErrors(d, field) ==
    IF field \notin DOMAIN d THEN <<>>
    ELSE LET val == d[field]
         IN  (IF IsSchemaType(val, SchemaType(field)) THEN <<>>
              ELSE <<Msg("is not of type", field, val)>>)
             \o (IF field = "type"
                    /\ ~(Kind(val) = "str" /\ Val(val) \in VALID_TYPES)
                 THEN <<Msg("is not one of", field, val)>>
                 ELSE <<>>)
             \o (IF SchemaType(field) \in {"number", "integer"}
                    /\ Negative(val)
                 THEN <<Msg("is less than the minimum of 0", field, val)>>
                 ELSE <<>>)

\* every error of the instance against CAD_PARAMS_SCHEMA, the errors at the
\* instance itself ("required") before those at its properties
SchemaErrors(d) ==
    (IF "type" \in DOMAIN d THEN <<>>
     ELSE <<Msg("is a required property", "type", NullV)>>)
    \o ForEachField(PropertyErrors, d, SchemaProperties)

\* a validation against a closed schema
ValidateClosedSchema(d) ==
    LET errs == SchemaErrors(d)
        extra == {key \in DOMAIN d :
                     \A i \in 1..Len(SchemaProperties) :
                        SchemaProperties[i] # key}
    IN  IF errs = <<>> /\ extra = {} THEN Valid
        ELSE Invalid(<<Msg("Additional properties are not allowed", "",
                           NullV)>>)

\* jsonschema.validate raises one ValidationError, the best match, and its
\* message alone is returned
_validate_with_jsonschema(d) ==
    LET errs == SchemaErrors(d)
    IN  IF errs = <<>> THEN Valid ELSE Invalid(<<Head(errs)>>)

numeric_fields ==
    <<"width", "height", "outer_diameter", "inner_diameter", "hole_diameter",
      "corner_offset", "center_hole_diameter", "pcd", "fillet_radius">>

integer_fields == <<"hole_count">>

TypeFieldErrors(d) ==
    IF "type" \notin DOMAIN d
    THEN <<Msg("Missing required field", "type", NullV)>>
    ELSE IF Kind(d["type"]) # "str"
    THEN <<Msg("must be a string, got", "type", StrV(TypeName(d["type"])))>>
    ELSE IF Val(d["type"]) \notin VALID_TYPES
    THEN <<Msg("Invalid type", "type", d["type"])>>
    ELSE <<>>

\* isinstance(value, (int, float)) holds of a bool too
NumericFieldErrors(d, field) ==
    IF field \notin DOMAIN d THEN <<>>
    ELSE IF Kind(d[field]) \notin {"int", "real", "bool"}
    THEN <<Msg("must be a number, got", field, StrV(TypeName(d[field])))>>
    ELSE IF Negative(d[field])
    THEN <<Msg("must be non-negative, got", field, d[field])>>
    ELSE <<>>

\* isinstance(value, int) holds of a bool and of no float
IntegerFieldErrors(d, field) ==
    IF field \notin DOMAIN d THEN <<>>
    ELSE IF Kind(d[field]) \notin {"int", "bool"}
    THEN <<Msg("must be an integer, got", field, StrV(TypeName(d[field])))>>
    ELSE IF Negative(d[field])
    THEN <<Msg("must be non-negative, got", field, d[field])>>
    ELSE <<>>

FeaturesErrors(d) ==
    IF "features" \in DOMAIN d /\ Kind(d["features"]) # "list"
    THEN <<Msg("must be a list, got", "features",
               StrV(TypeName(d["features"])))>>
    ELSE <<>>

_validate_conservative(d) ==
    LET errors == TypeFieldErrors(d)
                  \o ForEachField(NumericFieldErrors, d, numeric_fields)
                  \o ForEachField(IntegerFieldErrors, d, integer_fields)
                  \o FeaturesErrors(d)
    IN  [is_valid |-> Len(errors) = 0, errors |-> errors]

\* a validation that looks at the error key after the structural checks
ValidateErrorKeyLast(p, jsonschema) ==
    IF Kind(p) = "null"
    THEN Invalid(<<Msg("params cannot be None", "", NullV)>>)
    ELSE IF Kind(p) # "dict"
    THEN Invalid(<<Msg("params must be a dictionary, got", "",
                       StrV(TypeName(p)))>>)
    ELSE LET checked == IF jsonschema THEN _validate_with_jsonschema(Val(p))
                        ELSE _validate_conservative(Val(p))
         IN  IF "error" \in DOMAIN Val(p)
             THEN Invalid(checked.errors
                          \o <<Msg("params contains error", "error",
                                   Val(p)["error"])>>)
             ELSE checked

\* validate_params on the Python value p; jsonschema says whether the import
\* of the jsonschema library succeeds
validate_params(p, jsonschema) ==
    IF Kind(p) = "null"
    THEN Invalid(<<Msg("params cannot be None", "", NullV)>>)
    ELSE IF Kind(p) # "dict"
    THEN Invalid(<<Msg("params must be a dictionary, got", "",
                       StrV(TypeName(p)))>>)
    ELSE IF "error" \in DOMAIN Val(p)
    THEN Invalid(<<Msg("params contains error", "error", Val(p)["error"])>>)
    ELSE IF jsonschema THEN _validate_with_jsonschema(Val(p))
    ELSE _validate_conservative(Val(p))

(***************************************************************************)
(* generator.py.  A description is its sequence of whitespace-separated    *)
(* words; a regular expression is matched against the words, \s+ being the *)
(* gap between two of them.                                                *)
(***************************************************************************)
\* str.lower() on one word
Lower(word) ==
    CASE word = "L-shaped" -> "l-shaped"
      [] word = "T-shaped" -> "t-shaped"
      [] word = "PCD" -> "pcd"
      [] word = "L-bracket" -> "l-bracket"
      [] word = "Flange" -> "flange"
      [] word = "Triangular" -> "triangular"
      [] OTHER -> word

lower(description) == [i \in DOMAIN description |-> Lower(description[i])]

\* the words that are a run of digits, and those that are digits followed by
\* "mm", with the int() of the digits
Digits ==
    [word \in {"4", "8", "200", "100"} |->
        CASE word = "4" -> 4 [] word = "8" -> 8
          [] word = "200" -> 200 [] word = "100" -> 100]

DigitsMm ==
    [word \in {"200mm", "100mm", "150mm", "10mm", "15mm", "20mm", "30mm"} |->
        CASE word = "200mm" -> 200 [] word = "100mm" -> 100
          [] word = "150mm" -> 150 [] word = "10mm" -> 10
          [] word = "15mm" -> 15 [] word = "20mm" -> 20
          [] word = "30mm" -> 30]

\* (\d+) followed by \s: the word is digits alone
IsDigits(word) == word \in DOMAIN Digits
\* (\d+)(?:mm)? followed by \s or the end
IsNumber(word) == word \in DOMAIN Digits \cup DOMAIN DigitsMm
int(word) == IF word \in DOMAIN Digits THEN Digits[word] ELSE DigitsMm[word]

Word(desc, i) == IF i >= 1 /\ i <= Len(desc) THEN desc[i] ELSE ""

\* words that begin with, or end in, the text a pattern asks for
HoleWords == {"hole", "holes"}
DiameterWords == {"diameter", "diameter,"}
CornerWords == {"corner", "corners"}

\* re.search: the leftmost position at which the pattern matches, 0 if none
Search(Matches(_, _), desc) ==
    LET S == {i \in 1..Len(desc) : Matches(desc, i)}
    IN  IF S = {} THEN 0 ELSE CHOOSE i \in S : \A j \in S : i <= j

\* an optional word of the set opt at position i: the position after it
Skip(desc, i, opt) == IF Word(desc, i) \in opt THEN i + 1 ELSE i

\* patterns['rectangle']; the two numbers are at RectangleW and RectangleW + 2
RectangleW(desc, i) == Skip(desc, i + 1, {"plate", "bracket", "frame"})
rectangle(desc, i) ==
    /\ Word(desc, i) \in {"rectangular", "rectangula"}
    /\ IsNumber(Word(desc, RectangleW(desc, i)))
    /\ Word(desc, RectangleW(desc, i) + 1) \in {"by", "x"}
    /\ IsNumber(Word(desc, RectangleW(desc, i) + 2))

\* patterns['square']
SquareW(desc, i) == Skip(desc, i + 1, {"plate", "bracket"})
square(desc, i) ==
    /\ Word(desc, i) = "square"
    /\ IsNumber(Word(desc, SquareW(desc, i)))

\* patterns['circular']
CircularD(desc, i) == Skip(desc, i + 1, {"outer"}) + 1
circular(desc, i) ==
    /\ Word(desc, i) \in {"circular", "circle"}
    /\ Word(desc, CircularD(desc, i) - 1) = "diameter"
    /\ IsNumber(Word(desc, CircularD(desc, i)))

\* patterns['inner_diameter']
inner_diameter(desc, i) ==
    /\ Word(desc, i) = "inner"
    /\ Word(desc, i + 1) = "diameter"
    /\ IsNumber(Word(desc, i + 2))

\* patterns['hole_count']
hole_count(desc, i) ==
    /\ IsDigits(Word(desc, i))
    /\ Word(desc, Skip(desc, Skip(desc, i + 1, {"circular"}), {"bolt"}))
          \in HoleWords

\* a pattern that does not ask for the word diameter after the number
HoleDiameterUnnamed(desc, i) ==
    /\ Word(desc, i) \in HoleWords
    /\ IsNumber(Word(desc, i + 1))

\* patterns['hole_diameter']
hole_diameter(desc, i) ==
    /\ Word(desc, i) \in HoleWords
    /\ IsNumber(Word(desc, i + 1))
    /\ Word(desc, i + 2) \in DiameterWords

\* patterns['corner_offset']
corner_offset(desc, i) ==
    /\ IsNumber(Word(desc, i))
    /\ Word(desc, i + 1) \in {"from", "offset", "at"}
    /\ Word(desc, Skip(desc, i + 2, {"each"})) \in CornerWords

\* patterns['pcd']
pcd(desc, i) ==
    /\ IsNumber(Word(desc, i))
    /\ \/ Word(desc, i + 1) = "pitch" /\ Word(desc, i + 2) = "circle"
       \/ Word(desc, i + 1) = "PCD"

\* patterns['center_hole']
center_hole(desc, i) ==
    /\ Word(desc, i) = "center"
    /\ Word(desc, i + 1) = "hole"
    /\ IsNumber(Word(desc, i + 2))
    /\ Word(desc, i + 3) \in DiameterWords

\* patterns['fillet']
fillet(desc, i) ==
    /\ IsNumber(Word(desc, i))
    /\ Word(desc, i + 1) = "radius"
    /\ Word(desc, i + 2) = "fillet"

\* patterns['l_bracket'], patterns['t_bracket'], patterns['triangular']
l_bracket(desc, i) == Word(desc, i) = "L-shaped"
t_bracket(desc, i) == Word(desc, i) = "T-shaped"
triangular(desc, i) == Word(desc, i) = "triangular"

\* 'flange' in desc, 'square' in desc
Contains(desc, word) == \E i \in 1..Len(desc) : desc[i] = word

\* a cascade that also knows a circular shape
ShapeTypeWithCircular(desc) ==
    IF Search(l_bracket, desc) # 0 THEN "l_bracket"
    ELSE IF Search(t_bracket, desc) # 0 THEN "t_bracket"
    ELSE IF Search(triangular, desc) # 0 THEN "triangular"
    ELSE IF Contains(desc, "circular") THEN "circular"
    ELSE IF Contains(desc, "flange") THEN "flange"
    ELSE IF Contains(desc, "square") THEN "square"
    ELSE "rectangular"

\* the shape-type cascade of parse_description
ShapeType(desc) ==
    IF Search(l_bracket, desc) # 0 THEN "l_bracket"
    ELSE IF Search(t_bracket, desc) # 0 THEN "t_bracket"
    ELSE IF Search(triangular, desc) # 0 THEN "triangular"
    ELSE IF Contains(desc, "flange") THEN "flange"
    ELSE IF Contains(desc, "square") THEN "square"
    ELSE "rectangular"

\* an assignment of the matched text without int()
SetIfUnconverted(d, m, key, word) ==
    IF m # 0 THEN DictSet(d, key, StrV(word)) ELSE d

\* result[key] = int(group) when the pattern matched at m
SetIf(d, m, key, word) == IF m # 0 THEN DictSet(d, key, IntV(int(word))) ELSE d

parse_description(description) ==
    LET desc == lower(description)
        type == ShapeType(desc)
        r0 == [x \in {"type", "features"} |->
                  IF x = "type" THEN StrV(type) ELSE ListV(<<>>)]
        rect == Search(rectangle, desc)
        r1 == IF type \in {"rectangular", "l_bracket", "t_bracket"}
                 /\ rect # 0
              THEN DictSet(DictSet(r0, "width",
                             IntV(int(desc[RectangleW(desc, rect)]))),
                           "height",
                           IntV(int(desc[RectangleW(desc, rect) + 2])))
              ELSE r0
        sq == Search(square, desc)
        r2 == IF type = "square" /\ sq # 0
              THEN DictSet(DictSet(r1, "width",
                             IntV(int(desc[SquareW(desc, sq)]))),
                           "height", IntV(int(desc[SquareW(desc, sq)])))
              ELSE r1
        outer == IF type = "flange" THEN Search(circular, desc) ELSE 0
        inner == IF type = "flange" THEN Search(inner_diameter, desc) ELSE 0
        r3 == SetIf(r2, outer, "outer_diameter",
                    Word(desc, CircularD(desc, outer)))
        r4 == SetIf(r3, inner, "inner_diameter", Word(desc, inner + 2))
        holes == Search(hole_count, desc)
        r5 == SetIf(r4, holes, "hole_count", Word(desc, holes))
        diameter == Search(hole_diameter, desc)
        r6 == SetIf(r5, diameter, "hole_diameter", Word(desc, diameter + 1))
        center == Search(center_hole, desc)
        r7 == SetIf(r6, center, "center_hole_diameter", Word(desc, center + 2))
        offset == Search(corner_offset, desc)
        r8 == SetIf(r7, offset, "corner_offset", Word(desc, offset))
        pitch == Search(pcd, desc)
        r9 == SetIf(r8, pitch, "pcd", Word(desc, pitch))
        fil == Search(fillet, desc)
    IN  SetIf(r9, fil, "fillet_radius", Word(desc, fil))

(***************************************************************************)
(* dxf_creator.py.  The drawing is the sequence of entities added to the   *)
(* modelspace; an arithmetic step on a value that is no number raises.     *)
(***************************************************************************)
Drawn(entities) == [raised |-> FALSE, entities |-> entities]
Raised(what) == [raised |-> TRUE, error |-> what]

Circles(count) == [i \in 1..count |-> "CIRCLE"]

\* Python arithmetic (+, -, /) accepts int, float and bool
IsArith(val) == Kind(val) \in {"int", "real", "bool"}
AllArith(d, fields) == \A f \in fields : IsArith(d[f])
IsZero(val) ==
    \/ Kind(val) \in {"int", "real"} /\ Val(val) = 0
    \/ Kind(val) = "bool" /\ ~Val(val)

\* add_holes_on_pcd: the circles it adds, or the exception it raises
add_holes_on_pcd(pcd_diameter, count, hole_radius_of) ==
    IF ~IsArith(hole_radius_of) \/ ~IsArith(pcd_diameter) \/ ~IsArith(count)
    THEN Raised("TypeError")
    ELSE IF IsZero(count) THEN Raised("ZeroDivisionError")
    ELSE IF Kind(count) = "real" THEN Raised("TypeError")
    ELSE IF Kind(count) = "bool" THEN Drawn(Circles(1))
    ELSE Drawn(Circles(IF Val(count) > 0 THEN Val(count) ELSE 0))

create_from_params(d) ==
    LET shape_type == IF "type" \in DOMAIN d THEN d["type"]
                      ELSE StrV("rectangular")
        has(f) == f \in DOMAIN d
    IN  IF Kind(shape_type) = "str"
           /\ Val(shape_type) \in {"rectangular", "square"}
        THEN IF ~(has("width") /\ has("height")) THEN Drawn(<<>>)
             ELSE IF ~AllArith(d, {"width", "height"})
             THEN Raised("TypeError")
             ELSE IF has("hole_diameter") /\ has("corner_offset")
                     /\ ~AllArith(d, {"hole_diameter", "corner_offset"})
             THEN Raised("TypeError")
             ELSE IF has("center_hole_diameter")
                     /\ ~IsArith(d["center_hole_diameter"])
             THEN Raised("TypeError")
             ELSE Drawn(<<"LWPOLYLINE">>
                        \o (IF has("hole_diameter") /\ has("corner_offset")
                            THEN Circles(4) ELSE <<>>)
                        \o (IF has("center_hole_diameter")
                            THEN Circles(1) ELSE <<>>))
        ELSE IF Kind(shape_type) = "str" /\ Val(shape_type) = "flange"
        THEN IF ~(has("outer_diameter") /\ has("inner_diameter"))
             THEN Drawn(<<>>)
             ELSE IF ~AllArith(d, {"outer_diameter", "inner_diameter"})
             THEN Raised("TypeError")
             ELSE IF has("hole_count") /\ has("hole_diameter") /\ has("pcd")
             THEN LET holes == add_holes_on_pcd(d["pcd"], d["hole_count"],
                                                d["hole_diameter"])
                  IN  IF holes.raised THEN holes
                      ELSE Drawn(Circles(2) \o holes.entities)
             ELSE Drawn(Circles(2))
        ELSE Drawn(<<>>)

(***************************************************************************)
(* llm_client.py.                                                          *)
(***************************************************************************)
\* the number of characters of the raw response kept in raw_llm
RawPrefix == 500

\* LocalLLMClient(): _load_model returns without a model when a library is
\* missing and re-raises what from_pretrained raises
_load_model(e) ==
    IF ~e.transformers THEN [raised |-> FALSE, loaded |-> FALSE]
    ELSE IF ~e.torch THEN [raised |-> FALSE, loaded |-> FALSE]
    ELSE IF ~e.pretrained THEN [raised |-> TRUE, loaded |-> FALSE]
    ELSE [raised |-> FALSE, loaded |-> TRUE]

\* what a call of _generate does: returns a text or raises
Returns(text) == [raised |-> FALSE, text |-> text, error |-> ""]
Raises(message) == [raised |-> TRUE, text |-> <<>>, error |-> message]

MetadataKeys == {"_source", "validation_errors", "raw_llm"}

\* a result that starts out stamped as the model's
InitialResultFromLlm ==
    [x \in {"_source", "validation_errors"} |->
        IF x = "_source" THEN StrV("llm") ELSE ListV(<<>>)]

\* result as extract_parameters first builds it
InitialResult ==
    [x \in {"_source", "validation_errors"} |->
        IF x = "_source" THEN StrV("fallback_parser") ELSE ListV(<<>>)]

\* an append that is forgotten
AppendErrorDropped(result, error) == result

\* result["validation_errors"].append(error)
AppendError(result, error) ==
    DictSet(result, "validation_errors",
            ListV(Append(Val(result["validation_errors"]), error)))

\* the raw response kept whole
KeepRawUnbounded(result, raw_output) ==
    DictSet(result, "raw_llm", TextV(raw_output))

\* result["raw_llm"] = raw_output[:500]
KeepRaw(result, raw_output) ==
    DictSet(result, "raw_llm", TextV(Slice(raw_output, RawPrefix)))

\* the try block of extract_parameters on the outcome of _generate: either
\* the early return of the model's parameters, or result as the block leaves
\* it
LlmAttempt(outcome, jsonschema) ==
    IF outcome.raised
    THEN [returned |-> FALSE,
          result |-> AppendError(InitialResult,
                                 Msg("LLM error", "", StrV(outcome.error)))]
    ELSE
    LET raw_output == outcome.text
        json_str == _extract_json_balanced(raw_output)
    IN  IF json_str = None
        THEN [returned |-> FALSE,
              result |-> AppendError(KeepRaw(InitialResult, raw_output),
                            Msg("No JSON object found in LLM output", "",
                                NullV))]
        ELSE
        LET loaded == json_loads(json_str.v)
        IN  IF ~loaded.ok
            THEN [returned |-> FALSE,
                  result |-> AppendError(KeepRaw(InitialResult, raw_output),
                                Msg("JSON decode error", "",
                                    StrV(loaded.why)))]
            ELSE
            LET checked == validate_params(loaded.v, jsonschema)
            IN  IF checked.is_valid
                THEN [returned |-> TRUE,
                      result |-> DictSet(DictSet(Val(loaded.v), "_source",
                                                 StrV("llm")),
                                         "validation_errors", ListV(<<>>))]
                ELSE [returned |-> FALSE,
                      result |-> DictSet(KeepRaw(InitialResult, raw_output),
                                         "validation_errors",
                                         ListV(checked.errors))]

\* a merge whose test of the key is inverted
MergeFallbackInverted(result, fallback_result) ==
    LET merged == DOMAIN fallback_result \cap MetadataKeys
    IN  [x \in DOMAIN result \cup merged |->
            IF x \in merged THEN fallback_result[x] ELSE result[x]]

\* the merge of the fallback parser's fields into result
MergeFallback(result, fallback_result) ==
    LET merged == DOMAIN fallback_result \ MetadataKeys
    IN  [x \in DOMAIN result \cup merged |->
            IF x \in merged THEN fallback_result[x] ELSE result[x]]

\* an extraction that does not look whether the model is loaded
ExtractParametersUnguarded(description, model_loaded, outcome, jsonschema) ==
    LET attempt == LlmAttempt(outcome, jsonschema)
    IN  IF attempt.returned THEN attempt.result
        ELSE MergeFallback(attempt.result, parse_description(description))

\* extract_parameters on a client whose model is or is not loaded; outcome
\* is what _generate does if it is called
extract_parameters(description, model_loaded, outcome, jsonschema) ==
    LET attempt == IF model_loaded THEN LlmAttempt(outcome, jsonschema)
                   ELSE [returned |-> FALSE, result |-> InitialResult]
    IN  IF attempt.returned THEN attempt.result
        ELSE MergeFallback(attempt.result, parse_description(description))

(***************************************************************************)
(* cli.py.                                                                 *)
(***************************************************************************)
EXIT_SUCCESS == 0
EXIT_DXF_ERROR == 3
EXIT_GENERAL_ERROR == 4

extract_with_fallback(description) ==
    DictSet(DictSet(parse_description(description), "_source",
                    StrV("fallback_parser")),
            "validation_errors", ListV(<<>>))

\* extract_with_llm: every way the call can end.  The client is constructed
\* (which loads the model) and extract_parameters is called on it; o ranges
\* over what _generate may do.
NotCalled == [called |-> FALSE]
Called(outcome) == [called |-> TRUE, outcome |-> outcome]

WithClient(description, e, outcomes) ==
    IF _load_model(e).loaded
    THEN {[raised |-> FALSE, client |-> "loaded", gen |-> Called(o),
           result |-> extract_parameters(description, TRUE, o, e.jsonschema)]
          : o \in outcomes}
    ELSE {[raised |-> FALSE, client |-> "unloaded", gen |-> NotCalled,
           result |-> extract_parameters(description, FALSE, Raises(""),
                                         e.jsonschema)]}

extract_with_llm(description, e, outcomes) ==
    IF _load_model(e).raised
    THEN {[raised |-> TRUE, client |-> "failed", gen |-> NotCalled,
           result |-> EmptyDict]}
    ELSE WithClient(description, e, outcomes)

(***************************************************************************)
(* conversation_manager.py.                                                *)
(***************************************************************************)
\* current_design.update(parameters)
update(design, parameters) ==
    [x \in DOMAIN design \cup DOMAIN parameters |->
        IF x \in DOMAIN parameters THEN parameters[x] ELSE design[x]]

(***************************************************************************)
(* The inputs: descriptions, and the responses of the language model.      *)
(***************************************************************************)
Descriptions ==
    { <<"rectangular", "plate", "200mm", "by", "100mm", "with", "4", "holes",
        "10mm", "diameter", "at", "20mm", "from", "corners">>,
      <<"square", "plate", "150mm", "by", "150mm", "with", "center", "hole",
        "30mm", "diameter">>,
      <<"circular", "flange", "outer", "diameter", "200mm", "inner",
        "diameter", "100mm", "with", "8", "bolt", "holes">>,
      <<"unknown", "shape">>,
      <<"rectangular", "plate", "200mm", "by", "100mm", "with", "4",
        "circular", "holes", "of", "10mm", "diameter,", "positioned", "20mm",
        "from", "each", "corner">> }

\* the quick templates of the front-end
QuickTemplates ==
    { <<"rectangular", "plate", "200mm", "by", "100mm", "with", "4", "corner",
        "holes", "10mm", "diameter", "at", "20mm", "offset">>,
      <<"circular", "flange", "200mm", "outer", "100mm", "inner", "with", "8",
        "bolt", "holes", "15mm", "on", "150mm", "PCD">> }

ParserTypes == {"Template (Fast)", "LLM (Smart)", "Hybrid (Best)"}

\* a JSON string literal, and a member "key": value
Str(name, len) == <<QUOTE, Run(name, len), QUOTE>>
Member(key, len, value) == Str(key, len) \o <<COLON>> \o value
Num(lit, len) == <<Run(lit, len)>>
TypeIs(name, len) == Member("type", 4, Str(name, len))

ValidResponse ==
    <<LBRACE>> \o TypeIs("rectangular", 11) \o <<COMMA>>
    \o Member("width", 5, Num("200", 3)) \o <<COMMA>>
    \o Member("height", 6, Num("100", 3)) \o <<COMMA>>
    \o Member("hole_count", 10, Num("4", 1)) \o <<RBRACE>>

SquareObject ==
    <<LBRACE>> \o TypeIs("square", 6) \o <<COMMA>>
    \o Member("width", 5, Num("150", 3)) \o <<COMMA>>
    \o Member("height", 6, Num("150", 3)) \o <<RBRACE>>

HexagonObject ==
    <<LBRACE>> \o TypeIs("hexagon", 7) \o <<COMMA>>
    \o Member("width", 5, Num("200", 3)) \o <<RBRACE>>

\* {"type": "flange", "outer_diameter": 200, "inner_diameter": 100,
\*  "hole_count": <count>, "hole_diameter": 4, "pcd": 150}
FlangeObject(count) ==
    <<LBRACE>> \o TypeIs("flange", 6) \o <<COMMA>>
    \o Member("outer_diameter", 14, Num("200", 3)) \o <<COMMA>>
    \o Member("inner_diameter", 14, Num("100", 3)) \o <<COMMA>>
    \o Member("hole_count", 10, Num(count, 1)) \o <<COMMA>>
    \o Member("hole_diameter", 13, Num("4", 1)) \o <<COMMA>>
    \o Member("pcd", 3, Num("150", 3)) \o <<RBRACE>>

Responses ==
    { ValidResponse,
      FlangeObject("4"),
      FlangeObject("0"),
      <<Run("Here is the extracted JSON", 26), COLON>> \o SquareObject,
      \* {"type": "rectangular", "width": not_valid_json}
      <<LBRACE>> \o TypeIs("rectangular", 11) \o <<COMMA>>
         \o Member("width", 5, <<Run("not_valid_json", 14)>>) \o <<RBRACE>>,
      <<Run("I cannot generate JSON from this description.", 45)>>,
      HexagonObject,
      \* {"width": 200, "height": 100}
      <<LBRACE>> \o Member("width", 5, Num("200", 3)) \o <<COMMA>>
         \o Member("height", 6, Num("100", 3)) \o <<RBRACE>>,
      \* {"type": "rectangular", "width": 200
      <<LBRACE>> \o TypeIs("rectangular", 11) \o <<COMMA>>
         \o Member("width", 5, Num("200", 3)),
      \* {"type": "flange"} {"type": "hexagon", "width": 200}
      <<LBRACE>> \o TypeIs("flange", 6) \o <<RBRACE>> \o HexagonObject,
      \* {"type": "rectangular", "meta": {"source": "llm"}}
      <<LBRACE>> \o TypeIs("rectangular", 11) \o <<COMMA>>
         \o Member("meta", 4, <<LBRACE>> \o Member("source", 6, Str("llm", 3))
                               \o <<RBRACE>>) \o <<RBRACE>>,
      \* {"type": "square", "width": -5}
      <<LBRACE>> \o TypeIs("square", 6) \o <<COMMA>>
         \o Member("width", 5, Num("-5", 2)) \o <<RBRACE>>,
      \* {"type": "flange", "hole_count": 4.0}
      <<LBRACE>> \o TypeIs("flange", 6) \o <<COMMA>>
         \o Member("hole_count", 10, Num("4.0", 3)) \o <<RBRACE>>,
      \* {"error": "parsing_failed"}
      <<LBRACE>> \o Member("error", 5, Str("parsing_failed", 14))
         \o <<RBRACE>>,
      \* {"type": "square", "raw_llm": "mine", "_source": "model"}
      <<LBRACE>> \o TypeIs("square", 6) \o <<COMMA>>
         \o Member("raw_llm", 7, Str("mine", 4)) \o <<COMMA>>
         \o Member("_source", 7, Str("model", 5)) \o <<RBRACE>>,
      \* {"type": "square", "note": "}"}
      <<LBRACE>> \o TypeIs("square", 6) \o <<COMMA>>
         \o Member("note", 4, <<QUOTE, RBRACE, QUOTE>>) \o <<RBRACE>>,
      \* 600 characters of prose and no object
      <<Run("prose", 600)>>,
      \* 497 characters of prose, then {"type": "hexagon", "width": 200}
      <<Run("prose", 497)>> \o HexagonObject,
      \* 480 characters of prose, then an object that is never closed
      <<Run("prose", 480)>> \o <<LBRACE>> \o TypeIs("rectangular", 11)
         \o <<COMMA>> \o Member("width", 5, Num("200", 3)),
      \* the empty response
      <<>> }

Outcomes == {Returns(text) : text \in Responses} \cup {Raises("Model error")}

\* the front-end is exercised on fewer responses
UiOutcomes == {Returns(ValidResponse), Returns(HexagonObject),
               Raises("Model error")}

Envs ==
    [transformers : BOOLEAN, torch : BOOLEAN, pretrained : BOOLEAN,
     jsonschema : BOOLEAN]

(***************************************************************************)
(* The state machine.  One behaviour is one run of an entry point: main of *)
(* cli.py, or the chat mode of frontend/app.py (one or more turns).        *)
(***************************************************************************)
\* the most chat turns whose design is stored
MaxTurns == 2

NoArgs == [front |-> "none"]

Init ==
    /\ pc = "start"
    /\ args = NoArgs
    /\ env \in Envs
    /\ client = "none"
    /\ gen = NotCalled
    /\ params = None
    /\ pre_errors = <<>>
    /\ json_output = None
    /\ dxf = None
    /\ exit_code = None
    /\ current_design = EmptyDict
    /\ parameters_stack = <<>>
    /\ text_in = <<>>
    /\ text_out = None
    /\ call_in = None
    /\ call_out = None
    /\ rng = 0

\* a parser whose two extraction flags are not in an exclusive group
ParseArgsNotExclusive ==
    /\ pc = "start"
    /\ \E d \in Descriptions, u, f, nv, od \in BOOLEAN :
          args' = [front |-> "cli", description |-> d, use_llm |-> u,
                   force_fallback |-> f, no_validate |-> nv,
                   output_dxf |-> od]
    /\ pc' = "extract"
    /\ UNCHANGED <<env, client, gen, params, pre_errors, json_output, dxf,
                   exit_code, current_design, parameters_stack, text_in,
                   text_out, call_in, call_out,
                   rng>>

\* parser.parse_args(argv): the two extraction flags are mutually exclusive,
\* and argparse exits the process when both are given
ParseArgs ==
    /\ pc = "start"
    /\ \E d \in Descriptions, u, f, nv, od \in BOOLEAN :
          /\ args' = [front |-> "cli", description |-> d, use_llm |-> u,
                      force_fallback |-> f, no_validate |-> nv,
                      output_dxf |-> od]
          /\ pc' = IF u /\ f THEN "usage_error" ELSE "extract"
    /\ UNCHANGED <<env, client, gen, params, pre_errors, json_output, dxf,
                   exit_code, current_design, parameters_stack, text_in,
                   text_out, call_in, call_out,
                   rng>>

\* main, args.force_fallback
ExtractForcedFallback ==
    /\ pc = "extract"
    /\ args.force_fallback
    /\ params' = Some(extract_with_fallback(args.description))
    /\ pc' = "validate"
    /\ UNCHANGED <<args, env, client, gen, pre_errors, json_output, dxf,
                   exit_code, current_design, parameters_stack, text_in,
                   text_out, call_in, call_out,
                   rng>>

\* main, args.use_llm: an exception of extract_with_llm reaches the outer
\* handler of main
ExtractUseLlm ==
    /\ pc = "extract"
    /\ ~args.force_fallback /\ args.use_llm
    /\ \E r \in extract_with_llm(args.description, env, Outcomes) :
          /\ client' = r.client
          /\ gen' = r.gen
          /\ IF r.raised
             THEN /\ pc' = "done"
                  /\ exit_code' = Some(EXIT_GENERAL_ERROR)
                  /\ UNCHANGED params
             ELSE /\ pc' = "validate"
                  /\ params' = Some(r.result)
                  /\ UNCHANGED exit_code
    /\ UNCHANGED <<args, env, pre_errors, json_output, dxf, current_design,
                   parameters_stack, text_in, text_out, call_in, call_out,
                   rng>>

\* main, neither flag: try extract_with_llm, and on any exception use
\* extract_with_fallback
ExtractDefault ==
    /\ pc = "extract"
    /\ ~args.force_fallback /\ ~args.use_llm
    /\ \E r \in extract_with_llm(args.description, env, Outcomes) :
          /\ client' = r.client
          /\ gen' = r.gen
          /\ params' = IF r.raised
                       THEN Some(extract_with_fallback(args.description))
                       ELSE Some(r.result)
    /\ pc' = "validate"
    /\ UNCHANGED <<args, env, pre_errors, json_output, dxf, exit_code,
                   current_design, parameters_stack, text_in, text_out, call_in, call_out,
                   rng>>

\* main, "Validate if requested"
ValidationStep(p, no_validate, jsonschema) ==
    LET checked == validate_params(DictV(p), jsonschema)
    IN  IF ~no_validate /\ ~checked.is_valid
        THEN DictSet(p, "validation_errors", ListV(checked.errors))
        ELSE p

Validate ==
    /\ pc = "validate"
    /\ pre_errors' = Val(params.v["validation_errors"])
    /\ params' = Some(ValidationStep(params.v, args.no_validate,
                                     env.jsonschema))
    /\ pc' = "output"
    /\ UNCHANGED <<args, env, client, gen, json_output, dxf, exit_code,
                   current_design, parameters_stack, text_in, text_out, call_in, call_out,
                   rng>>

\* main, "Output JSON"
OutputJson ==
    /\ pc = "output"
    /\ json_output' = params
    /\ pc' = "dxf"
    /\ UNCHANGED <<args, env, client, gen, params, pre_errors, dxf, exit_code,
                   current_design, parameters_stack, text_in, text_out, call_in, call_out,
                   rng>>

\* a drawing step with no handler of its own: an exception of create_dxf
\* reaches the outer handler of main
CreateDxfUnhandled ==
    /\ pc = "dxf"
    /\ LET made == create_from_params(params.v)
       IN  IF args.output_dxf
           THEN /\ dxf' = Some(made)
                /\ exit_code' = IF made.raised THEN Some(EXIT_GENERAL_ERROR)
                                ELSE Some(EXIT_SUCCESS)
           ELSE /\ exit_code' = Some(EXIT_SUCCESS)
                /\ UNCHANGED dxf
    /\ pc' = "done"
    /\ UNCHANGED <<args, env, client, gen, params, pre_errors, json_output,
                   current_design, parameters_stack, text_in, text_out,
                   call_in, call_out, rng>>

\* main, "Generate DXF if requested", and the return
CreateDxf ==
    /\ pc = "dxf"
    /\ LET made == create_from_params(params.v)
       IN  IF args.output_dxf
           THEN /\ dxf' = Some(made)
                /\ exit_code' = IF made.raised THEN Some(EXIT_DXF_ERROR)
                                ELSE Some(EXIT_SUCCESS)
           ELSE /\ exit_code' = Some(EXIT_SUCCESS)
                /\ UNCHANGED dxf
    /\ pc' = "done"
    /\ UNCHANGED <<args, env, client, gen, params, pre_errors, json_output,
                   current_design, parameters_stack, text_in, text_out, call_in, call_out,
                   rng>>

\* the chat mode's "Parse based on mode": load_llm is cached, so the client
\* is constructed on the first use only, and a failed construction leaves
\* the template parser
UiParse(parser_type, user_input, e, cached) ==
    IF parser_type = "Template (Fast)"
       \/ cached = "failed"
       \/ (cached = "none" /\ _load_model(e).raised)
    THEN {[client |-> IF parser_type = "Template (Fast)" THEN cached
                      ELSE "failed",
           gen |-> NotCalled,
           result |-> parse_description(user_input)]}
    ELSE WithClient(user_input, e, UiOutcomes)

\* one chat turn of frontend/app.py: parse, draw, store the design
UiChatTurn ==
    /\ pc \in {"start", "ui"}
    /\ Len(parameters_stack) < MaxTurns
    /\ \E d \in QuickTemplates, pt \in ParserTypes :
          /\ args' = [front |-> "ui", description |-> d, parser_type |-> pt]
          /\ \E r \in UiParse(pt, d, env, client) :
                LET made == create_from_params(r.result)
                    stored == update(current_design, r.result)
                IN  /\ client' = r.client
                    /\ gen' = r.gen
                    /\ params' = Some(r.result)
                    /\ IF "error" \in DOMAIN r.result
                       THEN UNCHANGED <<dxf, current_design,
                                        parameters_stack>>
                       ELSE IF made.raised
                       THEN /\ dxf' = Some(made)
                            /\ UNCHANGED <<current_design, parameters_stack>>
                       ELSE /\ dxf' = Some(made)
                            /\ current_design' = stored
                            /\ parameters_stack' =
                                  Append(parameters_stack, stored)
    /\ pc' = "ui"
    /\ UNCHANGED <<env, pre_errors, json_output, exit_code, text_in, text_out,
                   call_in, call_out, rng>>

Next ==
    \/ ParseArgs
    \/ ExtractForcedFallback
    \/ ExtractUseLlm
    \/ ExtractDefault
    \/ Validate
    \/ OutputJson
    \/ CreateDxf
    \/ UiChatTurn

Spec == Init /\ [][Next]_vars

\* main is sequential code: once the parameters are extracted, each later
\* stage that can run does run
SpecMain ==
    Spec /\ WF_vars(Validate) /\ WF_vars(OutputJson) /\ WF_vars(CreateDxf)

(***************************************************************************)
(* _extract_json_balanced called on every text of braces and other         *)
(* characters up to a length.                                              *)
(***************************************************************************)
MaxTextLen == 6

BraceAlphabet == {LBRACE, RBRACE, Ch("a")}

Texts == UNION {[1..n -> BraceAlphabet] : n \in 0..MaxTextLen}

InitBalanced ==
    /\ pc = "call"
    /\ args = NoArgs
    /\ env = [transformers |-> FALSE, torch |-> FALSE, pretrained |-> FALSE,
              jsonschema |-> FALSE]
    /\ client = "none"
    /\ gen = NotCalled
    /\ params = None
    /\ pre_errors = <<>>
    /\ json_output = None
    /\ dxf = None
    /\ exit_code = None
    /\ current_design = EmptyDict
    /\ parameters_stack = <<>>
    /\ text_in \in Texts
    /\ text_out = None
    /\ call_in = None
    /\ call_out = None
    /\ rng = 0

CallExtract ==
    /\ pc = "call"
    /\ text_out' = _extract_json_balanced(text_in)
    /\ pc' = "returned"
    /\ UNCHANGED <<args, env, client, gen, params, pre_errors, json_output,
                   dxf, exit_code, current_design, parameters_stack, text_in,
                   call_in, call_out, rng>>

NextBalanced == CallExtract

SpecBalanced == InitBalanced /\ [][NextBalanced]_vars

(***************************************************************************)
(* validate_params called on None, on values that are no dict, and on      *)
(* every dict that gives each of seven keys one of a few values or leaves  *)
(* it out, with and without the jsonschema library.                        *)
(***************************************************************************)
\* the main program's variables when no run of it is under way
NoRun ==
    /\ args = NoArgs
    /\ client = "none"
    /\ gen = NotCalled
    /\ params = None
    /\ pre_errors = <<>>
    /\ json_output = None
    /\ dxf = None
    /\ exit_code = None
    /\ current_design = EmptyDict
    /\ parameters_stack = <<>>
    /\ text_in = <<>>
    /\ text_out = None

NoModel(jsonschema) ==
    [transformers |-> FALSE, torch |-> FALSE, pretrained |-> FALSE,
     jsonschema |-> jsonschema]

\* the dict of the keys that opts gives a value
MkDict(opts) ==
    [key \in {k \in DOMAIN opts : opts[k].some} |-> opts[key].v]

TypeOptions ==
    {None, Some(StrV("rectangular")), Some(StrV("flange")),
     Some(StrV("circle")), Some(IntV(123))}
WidthOptions ==
    {None, Some(IntV(200)), Some(IntV(-100)), Some(RealV(2005)),
     Some(StrV("two hundred")), Some(BoolV(TRUE))}
HeightOptions == {None, Some(IntV(100)), Some(IntV(-5))}
HoleCountOptions ==
    {None, Some(IntV(4)), Some(IntV(-4)), Some(RealV(45)), Some(RealV(40)),
     Some(BoolV(TRUE))}
FeaturesOptions ==
    {None, Some(ListV(<<StrV("slot"), StrV("fillet")>>)), Some(StrV("slot"))}
ErrorOptions == {None, Some(StrV("parsing_failed"))}
RawOptions == {None, Some(StrV("some output"))}

ValidatorInputs ==
    {NullV, StrV("not a dict"), IntV(7), ListV(<<>>)}
    \cup {DictV(MkDict([type |-> t, width |-> w, height |-> h,
                        hole_count |-> c, features |-> f, error |-> e,
                        raw |-> r])) :
            t \in TypeOptions, w \in WidthOptions, h \in HeightOptions,
            c \in HoleCountOptions, f \in FeaturesOptions,
            e \in ErrorOptions, r \in RawOptions}

InitValidate ==
    /\ pc = "call"
    /\ NoRun
    /\ \E jsonschema \in BOOLEAN : env = NoModel(jsonschema)
    /\ \E p \in ValidatorInputs : call_in = Some(p)
    /\ call_out = None
    /\ rng = 0

CallValidate ==
    /\ pc = "call"
    /\ call_out' = Some(validate_params(call_in.v, env.jsonschema))
    /\ pc' = "validated"
    /\ UNCHANGED <<args, env, client, gen, params, pre_errors, json_output,
                   dxf, exit_code, current_design, parameters_stack, text_in,
                   text_out, call_in, rng>>

NextValidate == CallValidate

SpecValidate == InitValidate /\ [][NextValidate]_vars

(***************************************************************************)
(* parse_description called on the descriptions of the tests and of the    *)
(* front-end, and on every description made of up to MaxMarkers shape      *)
(* words followed by one of a few phrases.                                 *)
(***************************************************************************)
MaxMarkers == 2

MarkerWords ==
    {"L-shaped", "T-shaped", "Triangular", "triangular", "Flange", "square",
     "bracket"}

Phrases ==
    { <<>>,
      <<"unknown", "shape">>,
      <<"rectangular", "bracket", "200mm", "by", "100mm">>,
      <<"plate", "150mm", "with", "4", "holes", "10mm", "diameter">>,
      <<"plate", "150mm", "pitch", "circle">> }

ParserInputs ==
    Descriptions \cup QuickTemplates
    \cup {m \o b : m \in UNION {[1..n -> MarkerWords] : n \in 0..MaxMarkers},
                   b \in Phrases}

InitParse ==
    /\ pc = "call"
    /\ NoRun
    /\ env = NoModel(FALSE)
    /\ \E description \in ParserInputs : call_in = Some(description)
    /\ call_out = None
    /\ rng = 0

CallParse ==
    /\ pc = "call"
    /\ call_out' = Some(parse_description(call_in.v))
    /\ pc' = "parsed"
    /\ UNCHANGED <<args, env, client, gen, params, pre_errors, json_output,
                   dxf, exit_code, current_design, parameters_stack, text_in,
                   text_out, call_in, rng>>

NextParse == CallParse

SpecParse == InitParse /\ [][NextParse]_vars

(***************************************************************************)
(* extract_parameters called twice on one client.  The model's state says, *)
(* for the prompt of the description, what greedy decoding continues with  *)
(* and what sampling continues with from each state of torch's random      *)
(* number generator; a token is one atom of the text.  Between the calls   *)
(* other code may use the generator.                                       *)
(***************************************************************************)
DEFAULT_SEED == 42
MaxNewTokens == 200
MaxRng == 2

RngStates == 0..MaxRng

\* torch.manual_seed(seed): the generator's state is a function of the seed
manual_seed(seed) == seed % (MaxRng + 1)

\* the keyword arguments of self.model.generate
GenerationConfig == [do_sample |-> FALSE, max_new_tokens |-> MaxNewTokens]

\* model.generate: greedy decoding when do_sample is off, sampling from the
\* generator's state when it is on, and at most max_new_tokens new tokens
generate(weights, rng_state, config) ==
    LET continuation == IF config.do_sample THEN weights.sampled[rng_state]
                        ELSE weights.greedy
        length == IF Len(continuation) < config.max_new_tokens
                  THEN Len(continuation) ELSE config.max_new_tokens
    IN  [text |-> SubSeq(continuation, 1, length),
         rng |-> IF config.do_sample THEN (rng_state + 1) % (MaxRng + 1)
                 ELSE rng_state]

\* a generation that samples from the generator as it finds it
GenerateSampledUnseeded(weights, seed, rng_state) ==
    LET config == [do_sample |-> TRUE, max_new_tokens |-> MaxNewTokens]
        made == generate(weights, rng_state, config)
    IN  [outcome |-> Returns(made.text), rng |-> made.rng,
         seeded |-> rng_state, config |-> config]

\* _generate: what it returns, the generator's state after it, the state
\* generate started from and the settings it was given
_generate(weights, seed, rng_state) ==
    LET seeded == manual_seed(seed)
        made == generate(weights, seeded, GenerationConfig)
    IN  [outcome |-> Returns(made.text), rng |-> made.rng,
         seeded |-> seeded, config |-> GenerationConfig]

Continuations ==
    {ValidResponse, HexagonObject,
     ValidResponse \o [i \in 1..MaxNewTokens |-> Ch("x")]}

Weights == [greedy : Continuations, sampled : [RngStates -> Continuations]]

InitTwice ==
    /\ pc = "call"
    /\ NoRun
    /\ \E jsonschema \in BOOLEAN :
          env = [transformers |-> TRUE, torch |-> TRUE, pretrained |-> TRUE,
                 jsonschema |-> jsonschema]
    /\ \E description \in {d \in Descriptions : Len(d) <= 10},
          weights \in Weights, seed \in {DEFAULT_SEED, 1} :
          call_in = Some([description |-> description, weights |-> weights,
                          seed |-> seed])
    /\ call_out = Some(<<>>)
    /\ rng \in RngStates

\* client.extract_parameters(description), a first and a second time
CallExtractParameters ==
    /\ pc \in {"call", "once"}
    /\ LET made == _generate(call_in.v.weights, call_in.v.seed, rng)
           result == extract_parameters(call_in.v.description, TRUE,
                                        made.outcome, env.jsonschema)
       IN  /\ call_out' = Some(Append(call_out.v,
                                      [result |-> result,
                                       raw |-> made.outcome.text,
                                       found |-> rng,
                                       seeded |-> made.seeded,
                                       config |-> made.config]))
           /\ rng' = made.rng
    /\ pc' = IF pc = "call" THEN "once" ELSE "twice"
    /\ UNCHANGED <<args, env, client, gen, params, pre_errors, json_output,
                   dxf, exit_code, current_design, parameters_stack, text_in,
                   text_out, call_in>>

\* other code draws from torch's generator between the two calls
UseGenerator ==
    /\ pc = "once"
    /\ \E next \in RngStates \ {rng} : rng' = next
    /\ UNCHANGED <<pc, args, env, client, gen, params, pre_errors,
                   json_output, dxf, exit_code, current_design,
                   parameters_stack, text_in, text_out, call_in, call_out>>

NextTwice == CallExtractParameters \/ UseGenerator

SpecTwice == InitTwice /\ [][NextTwice]_vars

(***************************************************************************)
(* A ConversationManager under any sequence of update_design and undo.     *)
(* call_in holds the last call with the state it found, call_out what undo *)
(* returned.                                                               *)
(***************************************************************************)
\* the most designs the stack holds
MaxStack == 3

DesignUpdates ==
    { EmptyDict,
      [key \in {"type", "width"} |->
          IF key = "type" THEN StrV("rectangular") ELSE IntV(200)],
      [key \in {"width"} |-> IntV(100)],
      [key \in {"type"} |-> StrV("flange")],
      [key \in {"height"} |-> IntV(100)] }

\* ConversationManager()
InitManager ==
    /\ pc = "manager"
    /\ NoRun
    /\ env = NoModel(FALSE)
    /\ call_in = None
    /\ call_out = None
    /\ rng = 0

update_design ==
    /\ pc = "manager"
    /\ Len(parameters_stack) < MaxStack
    /\ \E parameters \in DesignUpdates :
          LET updated == update(current_design, parameters)
          IN  /\ current_design' = updated
              /\ parameters_stack' = Append(parameters_stack, updated)
              /\ call_in' = Some([op |-> "update_design",
                                  design |-> current_design,
                                  stack |-> parameters_stack])
    /\ call_out' = None
    /\ UNCHANGED <<pc, args, env, client, gen, params, pre_errors,
                   json_output, dxf, exit_code, text_in, text_out, rng>>

undo ==
    /\ pc = "manager"
    /\ call_in' = Some([op |-> "undo", design |-> current_design,
                        stack |-> parameters_stack])
    /\ IF Len(parameters_stack) > 1
       THEN /\ parameters_stack' =
                  SubSeq(parameters_stack, 1, Len(parameters_stack) - 1)
            /\ current_design' = parameters_stack[Len(parameters_stack) - 1]
            /\ call_out' = Some(TRUE)
       ELSE /\ call_out' = Some(FALSE)
            /\ UNCHANGED <<current_design, parameters_stack>>
    /\ UNCHANGED <<pc, args, env, client, gen, params, pre_errors,
                   json_output, dxf, exit_code, text_in, text_out, rng>>

NextManager == update_design \/ undo

SpecManager == InitManager /\ [][NextManager]_vars

(***************************************************************************)
(* validate_params called twice on one mapping that the caller holds.      *)
(***************************************************************************)
InitRevalidate ==
    /\ pc = "call"
    /\ args = NoArgs
    /\ client = "none"
    /\ gen = NotCalled
    /\ \E jsonschema \in BOOLEAN : env = NoModel(jsonschema)
    /\ \E p \in ValidatorInputs :
          /\ Kind(p) = "dict"
          /\ params = Some(Val(p))
          /\ call_in = Some(Val(p))
    /\ pre_errors = <<>>
    /\ json_output = None
    /\ dxf = None
    /\ exit_code = None
    /\ current_design = EmptyDict
    /\ parameters_stack = <<>>
    /\ text_in = <<>>
    /\ text_out = None
    /\ call_out = Some(<<>>)
    /\ rng = 0

\* a validation that records its errors in the mapping it was given
ValidateHeldStamping ==
    /\ pc \in {"call", "once"}
    /\ LET checked == validate_params(DictV(params.v), env.jsonschema)
       IN  /\ call_out' = Some(Append(call_out.v, checked))
           /\ params' = Some(DictSet(params.v, "validation_errors",
                                     ListV(checked.errors)))
    /\ pc' = IF pc = "call" THEN "once" ELSE "twice"
    /\ UNCHANGED <<args, env, client, gen, pre_errors, json_output, dxf,
                   exit_code, current_design, parameters_stack, text_in,
                   text_out, call_in, rng>>

\* is_valid, errors = validate_params(params): the mapping is only read
ValidateHeld ==
    /\ pc \in {"call", "once"}
    /\ call_out' = Some(Append(call_out.v,
                               validate_params(DictV(params.v),
                                               env.jsonschema)))
    /\ pc' = IF pc = "call" THEN "once" ELSE "twice"
    /\ UNCHANGED <<args, env, client, gen, params, pre_errors, json_output,
                   dxf, exit_code, current_design, parameters_stack, text_in,
                   text_out, call_in, rng>>

NextRevalidate == ValidateHeld

SpecRevalidate == InitRevalidate /\ [][NextRevalidate]_vars

(***************************************************************************)
(* Properties.                                                             *)
(***************************************************************************)
\* the state holds what a call of extract_parameters returned: main has just
\* left extract_with_llm, or a chat turn used its client
ExtractParametersReturned ==
    /\ client \in {"loaded", "unloaded"}
    /\ \/ pc = "validate" /\ ~args.force_fallback
       \/ pc = "ui" /\ args.parser_type # "Template (Fast)"

\* _generate was called and returned a text
Generated == gen.called /\ ~gen.outcome.raised
GenerationRaised == gen.called /\ gen.outcome.raised

\* the stages of the generative attempt on the text _generate returned
Extracted == _extract_json_balanced(gen.outcome.text)
Decoded == json_loads(Extracted.v)
Checked == validate_params(Decoded.v, env.jsonschema)

Source(result) == Val(result["_source"])
Errors(result) == Val(result["validation_errors"])
HasError(result, error) ==
    \E i \in 1..Len(Errors(result)) : Errors(result)[i] = error

\* p is text[:k] for some k
IsPrefix(p, text) ==
    /\ Len(p) <= Len(text)
    /\ \A i \in 1..Len(p) :
          IF i < Len(p) THEN p[i] = text[i]
          ELSE p[i].s = text[i].s /\ p[i].n <= text[i].n

\* the fields of result other than the metadata are those of the Pattern
\* Extractor's output for the description
FieldsAreFallback(result, description) ==
    LET parsed == parse_description(description)
    IN  /\ DOMAIN result \ MetadataKeys = DOMAIN parsed
        /\ \A key \in DOMAIN parsed : result[key] = parsed[key]

\* C1: extract_parameters returns _source = "llm" with validation_errors = []
\* exactly when the model is loaded, _generate returned a text, the balanced
\* extraction found an object, the object parsed as JSON and validate_params
\* accepted it; every other result has _source = "fallback_parser".
C1_OnlySuccessExit ==
    ExtractParametersReturned =>
        IF /\ client = "loaded"
           /\ Generated
           /\ Extracted.some
           /\ Decoded.ok
           /\ Checked.is_valid
        THEN /\ Source(params.v) = "llm"
             /\ Errors(params.v) = <<>>
        ELSE Source(params.v) = "fallback_parser"

C1_Witness ==
    /\ ExtractParametersReturned
    /\ Generated
    /\ Len(gen.outcome.text) > 0
    /\ gen.outcome.text[1] # LBRACE
    /\ Source(params.v) = "llm"

\* C2: when _generate raises, extract_parameters still returns: the Pattern
\* Extractor's fields for the description, _source = "fallback_parser", and
\* a validation_errors entry that records the exception.
C2_GenerationErrorFallsBack ==
    GenerationRaised =>
        /\ params.some
        /\ Source(params.v) = "fallback_parser"
        /\ HasError(params.v, Msg("LLM error", "", StrV(gen.outcome.error)))
        /\ FieldsAreFallback(params.v, args.description)

C2_Witness ==
    /\ GenerationRaised
    /\ pc = "validate"
    /\ args.use_llm
    /\ "width" \in DOMAIN params.v

\* C3: a response with no opening brace, with an object that is never closed,
\* or whose balanced substring is not JSON makes extract_parameters fall
\* back; the result names the condition in validation_errors and keeps in
\* raw_llm the first 500 characters of the response (all of a shorter one).
NoOpeningBrace(text) == \A i \in 1..Len(text) : text[i] # LBRACE

C3_StructuralFailureFallsBack ==
    (ExtractParametersReturned /\ Generated
        /\ (~Extracted.some \/ ~Decoded.ok)) =>
        /\ NoOpeningBrace(gen.outcome.text) => ~Extracted.some
        /\ Source(params.v) = "fallback_parser"
        /\ FieldsAreFallback(params.v, args.description)
        /\ IF ~Extracted.some
           THEN HasError(params.v,
                         Msg("No JSON object found in LLM output", "", NullV))
           ELSE HasError(params.v,
                         Msg("JSON decode error", "", StrV(Decoded.why)))
        /\ "raw_llm" \in DOMAIN params.v
        /\ LET raw_llm == Val(params.v["raw_llm"])
           IN  /\ IsPrefix(raw_llm, gen.outcome.text)
               /\ TextLen(raw_llm) <= 500
               /\ TextLen(raw_llm) < 500 => raw_llm = gen.outcome.text

C3_Witness ==
    /\ ExtractParametersReturned
    /\ Generated
    /\ ~NoOpeningBrace(gen.outcome.text)
    /\ ~Extracted.some
    /\ TextLen(gen.outcome.text) > 500
    /\ TextLen(Val(params.v["raw_llm"])) = 500

\* C4: when the response parses to an object that validate_params rejects,
\* extract_parameters returns _source = "fallback_parser", validation_errors
\* equal to the validator's error list, which is not empty, and the prefix of
\* the raw response in raw_llm.
C4_RejectedObjectFallsBack ==
    (ExtractParametersReturned /\ Generated /\ Extracted.some /\ Decoded.ok
        /\ ~Checked.is_valid) =>
        /\ Source(params.v) = "fallback_parser"
        /\ Errors(params.v) = Checked.errors
        /\ Len(Errors(params.v)) > 0
        /\ "raw_llm" \in DOMAIN params.v
        /\ IsPrefix(Val(params.v["raw_llm"]), gen.outcome.text)
        /\ TextLen(Val(params.v["raw_llm"])) <= 500

C4_Witness ==
    /\ ExtractParametersReturned
    /\ Generated
    /\ Extracted.some
    /\ Decoded.ok
    /\ "type" \in DOMAIN Val(Decoded.v)
    /\ Val(Val(Decoded.v)["type"]) = "hexagon"
    /\ Source(params.v) = "fallback_parser"
    /\ TextLen(gen.outcome.text) > 500

\* C5: in a fallback result of extract_parameters the fields other than the
\* metadata are exactly the Pattern Extractor's fields and values for the
\* description, so that nothing of the rejected model output is in it, and
\* _source, validation_errors and raw_llm are as the failed attempt set them.
AttemptResult ==
    IF client = "loaded" THEN LlmAttempt(gen.outcome, env.jsonschema).result
    ELSE InitialResult

C5_FallbackFrame ==
    (ExtractParametersReturned /\ Source(params.v) = "fallback_parser") =>
        /\ FieldsAreFallback(params.v, args.description)
        /\ DOMAIN params.v \cap MetadataKeys = DOMAIN AttemptResult
        /\ \A key \in DOMAIN AttemptResult :
              params.v[key] = AttemptResult[key]

C5_Witness ==
    /\ ExtractParametersReturned
    /\ Generated
    /\ Extracted.some
    /\ Decoded.ok
    /\ "width" \in DOMAIN Val(Decoded.v)
    /\ Val(Decoded.v)["width"] = IntV(200)
    /\ Source(params.v) = "fallback_parser"
    /\ "width" \in DOMAIN params.v
    /\ params.v["width"] = IntV(150)
    /\ "raw_llm" \in DOMAIN params.v

\* C6: _extract_json_balanced returns None when the text has no '{' or when
\* the nesting counter, started at the first '{', never returns to zero;
\* otherwise it returns the substring from the first '{' through the first
\* '}' at which the counter is zero, whatever precedes and follows it.
Count(text, from, to, atom) ==
    Cardinality({j \in from..to : text[j] = atom})

Depth(text, from, to) ==
    Count(text, from, to, LBRACE) - Count(text, from, to, RBRACE)

Least(S) == CHOOSE i \in S : \A j \in S : i <= j

C6_FirstBalancedObject ==
    pc = "returned" =>
        LET opens == {i \in 1..Len(text_in) : text_in[i] = LBRACE}
            start == Least(opens)
            closes == {i \in start..Len(text_in) :
                          Depth(text_in, start, i) = 0}
        IN  IF opens = {} THEN text_out = None
            ELSE IF closes = {} THEN text_out = None
            ELSE text_out = Some(SubSeq(text_in, start, Least(closes)))

C6_Witness ==
    /\ pc = "returned"
    /\ text_out.some
    /\ text_in[1] # LBRACE
    /\ Len(text_out.v) = 4
    /\ Len(text_in) = 6

\* C7: every ParameterSet the orchestrator emits or hands on, on every path
\* of the command line and of the chat front-end, has a _source key and a
\* validation_errors list.
HasMetadata(p) ==
    /\ "_source" \in DOMAIN p
    /\ "validation_errors" \in DOMAIN p
    /\ Kind(p["validation_errors"]) = "list"

C7_MetadataOnEveryPath ==
    /\ json_output.some => HasMetadata(json_output.v)
    /\ (pc \in {"validate", "output", "dxf", "done", "ui"} /\ params.some)
          => HasMetadata(params.v)

\* C8: under every extraction strategy a model that fails to load or to run
\* is recovered locally: the run ends with a ParameterSet emitted and not
\* with an error outcome.
C8_ModelFailureRecovered ==
    (pc = "done" /\ (client = "failed" \/ GenerationRaised)) =>
        /\ json_output.some
        /\ exit_code # Some(EXIT_GENERAL_ERROR)

\* C9: with --force-fallback no client is constructed and _generate is not
\* called, and the result is the Pattern Extractor's output stamped
\* _source = "fallback_parser", validation_errors = []; with neither flag the
\* client is constructed first and an exception of it is replaced by that
\* same rule-based result; the two flags are never both in effect.
Extracting == pc \in {"extract", "validate", "output", "dxf", "done"}
AfterExtraction == pc \in {"validate", "output", "dxf", "done"}

RuleBasedResult(p, description) ==
    /\ FieldsAreFallback(p, description)
    /\ DOMAIN p \cap MetadataKeys = {"_source", "validation_errors"}
    /\ Source(p) = "fallback_parser"
    /\ Errors(p) = <<>>

C9_StrategySelection ==
    /\ Extracting => ~(args.use_llm /\ args.force_fallback)
    /\ (AfterExtraction /\ args.force_fallback) =>
          /\ client = "none"
          /\ ~gen.called
          /\ RuleBasedResult(params.v, args.description)
    /\ (AfterExtraction /\ ~args.force_fallback /\ ~args.use_llm) =>
          /\ client # "none"
          /\ params.some
          /\ exit_code # Some(EXIT_GENERAL_ERROR)
          /\ client = "failed" =>
                RuleBasedResult(params.v, args.description)

C9_Witness ==
    /\ pc = "done"
    /\ ~args.force_fallback /\ ~args.use_llm
    /\ client = "failed"
    /\ exit_code = Some(EXIT_SUCCESS)
    /\ "width" \in DOMAIN json_output.v

\* validate_params has returned from a call on a dict
ValidatedDict == pc = "validated" /\ Kind(call_in.v) = "dict"
Given == Val(call_in.v)

\* a number is an integer or a real and no boolean; an integer is a number
\* with no fractional part
IsNumberValue(val) == Kind(val) \in {"int", "real"}
IsIntegerValue(val) ==
    \/ Kind(val) = "int"
    \/ Kind(val) = "real" /\ Val(val) % 10 = 0
IsNegative(val) == IsNumberValue(val) /\ Val(val) < 0

NumericFieldNames ==
    {"width", "height", "outer_diameter", "inner_diameter", "hole_diameter",
     "corner_offset", "center_hole_diameter", "pcd", "fillet_radius"}

\* the recognized fields of d that break a rule of the validator
Offending(d) ==
    {f \in {"type"} : \/ f \notin DOMAIN d
                       \/ Kind(d[f]) # "str"
                       \/ Val(d[f]) \notin
                             {"rectangular", "square", "flange", "l_bracket",
                              "t_bracket", "triangular", "unknown"}}
    \cup {f \in NumericFieldNames \cap DOMAIN d :
             ~IsNumberValue(d[f]) \/ IsNegative(d[f])}
    \cup {f \in {"hole_count"} \cap DOMAIN d :
             ~IsIntegerValue(d[f]) \/ IsNegative(d[f])}
    \cup {f \in {"features"} \cap DOMAIN d : Kind(d[f]) # "list"}

\* C11: validate_params returns is_valid = False with a non-empty error list
\* for every mapping that lacks type, whose type is no text or not one of the
\* seven values, that has a numeric field negative or not a number, whose
\* hole_count is no integer or negative, or whose features is no list; None
\* and a value that is no mapping are rejected with one error.
C11_RejectsEveryViolation ==
    pc = "validated" =>
        IF Kind(call_in.v) # "dict"
        THEN ~call_out.v.is_valid /\ Len(call_out.v.errors) = 1
        ELSE Offending(Given) # {} =>
                ~call_out.v.is_valid /\ Len(call_out.v.errors) > 0

\* C12: validate_params returns (True, []) for every mapping whose type is
\* one of the seven values and whose recognized optional fields are of the
\* right type and non-negative (an int or a real for a dimension, an int for
\* hole_count, a list for features), whatever other fields, apart from the
\* error marker, it also has.
WellFormed(d) ==
    /\ "type" \in DOMAIN d
    /\ Kind(d["type"]) = "str"
    /\ Val(d["type"]) \in {"rectangular", "square", "flange", "l_bracket",
                           "t_bracket", "triangular", "unknown"}
    /\ \A f \in NumericFieldNames \cap DOMAIN d :
          IsNumberValue(d[f]) /\ Val(d[f]) >= 0
    /\ "hole_count" \in DOMAIN d =>
          Kind(d["hole_count"]) = "int" /\ Val(d["hole_count"]) >= 0
    /\ "features" \in DOMAIN d => Kind(d["features"]) = "list"
    /\ "error" \notin DOMAIN d

C12_AcceptsWellFormed ==
    (ValidatedDict /\ WellFormed(Given)) =>
        /\ call_out.v.is_valid
        /\ call_out.v.errors = <<>>

C12_Witness ==
    /\ ValidatedDict
    /\ WellFormed(Given)
    /\ env.jsonschema
    /\ "raw" \in DOMAIN Given
    /\ "width" \in DOMAIN Given
    /\ Kind(Given["width"]) = "real"
    /\ "hole_count" \in DOMAIN Given
    /\ call_out.v.is_valid

\* C13: for every mapping with an error key validate_params returns
\* is_valid = False and exactly one error, which quotes the value of the
\* key, whatever else the mapping holds; no structural check adds an error.
C13_ErrorKeyFirst ==
    (ValidatedDict /\ "error" \in DOMAIN Given) =>
        /\ ~call_out.v.is_valid
        /\ call_out.v.errors =
              <<Msg("params contains error", "error", Given["error"])>>

C13_Witness ==
    /\ ValidatedDict
    /\ "error" \in DOMAIN Given
    /\ Cardinality(Offending(Given)) >= 2
    /\ ~call_out.v.is_valid

\* C14: the checks of validate_params are accumulated: a call on a mapping
\* with several violations returns one error for each offending field, and
\* each of them names its field.
C14_OneErrorPerField ==
    (ValidatedDict /\ "error" \notin DOMAIN Given) =>
        /\ Len(call_out.v.errors) = Cardinality(Offending(Given))
        /\ \A f \in Offending(Given) :
              \E i \in 1..Len(call_out.v.errors) : call_out.v.errors[i][3] = f

\* parse_description has returned; the words of its argument in lower case
ParseReturned == pc = "parsed"
Words == [i \in DOMAIN call_in.v |-> Lower(call_in.v[i])]
HasWord(word) == \E i \in DOMAIN Words : Words[i] = word
ParsedType == call_out.v["type"]
DimensionFields == DOMAIN call_out.v \ {"type", "features"}

\* C15: for every description parse_description returns a mapping with the
\* type field, whose value is one of rectangular, square, flange, l_bracket,
\* t_bracket, triangular and unknown.
C15_TypeIsEnumerated ==
    ParseReturned =>
        /\ "type" \in DOMAIN call_out.v
        /\ Kind(ParsedType) = "str"
        /\ Val(ParsedType) \in {"rectangular", "square", "flange",
                                "l_bracket", "t_bracket", "triangular",
                                "unknown"}

C15_Witness ==
    /\ ParseReturned
    /\ HasWord("circular")
    /\ HasWord("flange")
    /\ Val(ParsedType) = "flange"

\* C16: for a description in which no shape keyword occurs and no
\* dimensional pattern matches (it has no number at all), parse_description
\* returns the type unknown and sets no dimensional field.
TotalNonMatch ==
    /\ \A word \in {"l-shaped", "t-shaped", "triangular", "flange", "square",
                    "rectangular", "circular", "circle"} : ~HasWord(word)
    /\ \A i \in DOMAIN Words :
          Words[i] \notin DOMAIN Digits \cup DOMAIN DigitsMm

C16_UnknownOnTotalNonMatch ==
    (ParseReturned /\ TotalNonMatch) =>
        /\ Val(ParsedType) = "unknown"
        /\ DimensionFields = {}

\* C17: the type is that of the first check, in the order L-shaped marker,
\* T-shaped marker, triangular marker, "flange", "square", whose marker
\* occurs in the description, and rectangular when none occurs.
C17_FirstMarkerWins ==
    ParseReturned =>
        Val(ParsedType) =
            IF HasWord("l-shaped") THEN "l_bracket"
            ELSE IF HasWord("t-shaped") THEN "t_bracket"
            ELSE IF HasWord("triangular") THEN "triangular"
            ELSE IF HasWord("flange") THEN "flange"
            ELSE IF HasWord("square") THEN "square"
            ELSE "rectangular"

\* C18: hole_diameter is set only when hole or holes is directly followed by
\* the number and then by diameter; for "rectangular plate 200mm by 100mm
\* with 4 circular holes of 10mm diameter, positioned 20mm from each corner"
\* the result has hole_count, corner_offset, width and height and no
\* hole_diameter; every captured value is the integer written in the text.
HolesNumberDiameter(i) ==
    /\ i + 2 <= Len(Words)
    /\ Words[i] \in {"hole", "holes"}
    /\ Words[i + 1] \in DOMAIN Digits \cup DOMAIN DigitsMm
    /\ Words[i + 2] \in {"diameter", "diameter,"}

ComplexDescription ==
    <<"rectangular", "plate", "200mm", "by", "100mm", "with", "4",
      "circular", "holes", "of", "10mm", "diameter,", "positioned", "20mm",
      "from", "each", "corner">>

C18_HoleDiameterPhrasing ==
    ParseReturned =>
        /\ "hole_diameter" \in DOMAIN call_out.v
              <=> \E i \in DOMAIN Words : HolesNumberDiameter(i)
        /\ \A key \in DimensionFields :
              \E i \in DOMAIN Words :
                 /\ Words[i] \in DOMAIN Digits \cup DOMAIN DigitsMm
                 /\ call_out.v[key] = IntV(int(Words[i]))
        /\ call_in.v = ComplexDescription =>
              /\ DimensionFields =
                    {"width", "height", "hole_count", "corner_offset"}
              /\ call_out.v["width"] = IntV(200)
              /\ call_out.v["height"] = IntV(100)
              /\ call_out.v["hole_count"] = IntV(4)
              /\ call_out.v["corner_offset"] = IntV(20)

C18_Witness ==
    /\ ParseReturned
    /\ call_in.v = ComplexDescription
    /\ "hole_count" \in DOMAIN call_out.v
    /\ "hole_diameter" \notin DOMAIN call_out.v

\* C20: create_from_params draws a ParameterSet that lacks optional fields,
\* leaving out their geometry only, and raises, instead of writing a
\* drawing, when the fields its shape type requires are all absent: width
\* and height of a rectangular or square set, outer_diameter and
\* inner_diameter of a flange.
DxfRequested == pc = "done" /\ args.front = "cli" /\ dxf.some
Passed == params.v
Has(field) == field \in DOMAIN Passed
PassedType == IF Has("type") THEN Val(Passed["type"]) ELSE "rectangular"

RequiredAbsent ==
    \/ PassedType \in {"rectangular", "square"}
       /\ ~Has("width") /\ ~Has("height")
    \/ PassedType = "flange"
       /\ ~Has("outer_diameter") /\ ~Has("inner_diameter")

OnlyOutline ==
    /\ PassedType \in {"rectangular", "square"}
    /\ Has("width") /\ Has("height")
    /\ Kind(Passed["width"]) = "int" /\ Kind(Passed["height"]) = "int"
    /\ ~Has("hole_diameter") /\ ~Has("center_hole_diameter")

C20_RequiredFieldsOrRaise ==
    DxfRequested =>
        /\ OnlyOutline => ~dxf.v.raised /\ dxf.v.entities = <<"LWPOLYLINE">>
        /\ RequiredAbsent => dxf.v.raised

\* C19: two calls of extract_parameters with the same description, on a
\* client with the same seed and the same model state, return the same
\* result; before each generation the generator is set from the seed, and
\* generation does not sample and makes at most max_new_tokens tokens.
C19_GenerativePathDeterministic ==
    /\ pc = "twice" => call_out.v[1].result = call_out.v[2].result
    /\ pc \in {"once", "twice"} =>
          \A i \in 1..Len(call_out.v) :
             /\ call_out.v[i].seeded = call_in.v.seed % (MaxRng + 1)
             /\ ~call_out.v[i].config.do_sample
             /\ Len(call_out.v[i].raw) <= 200

C19_Witness ==
    /\ pc = "twice"
    /\ call_out.v[1].found # call_out.v[2].found
    /\ call_out.v[2].found # call_out.v[2].seeded
    /\ call_in.v.weights.sampled[call_out.v[1].found]
          # call_in.v.weights.sampled[call_out.v[2].found]
    /\ Len(call_in.v.weights.greedy) > 200
    /\ Len(call_out.v[2].raw) = 200
    /\ Val(call_out.v[2].result["_source"]) = "llm"

\* C21: when the model or the tokenizer is not loaded, extract_parameters
\* does not call _generate and returns the Pattern Extractor's fields with
\* _source = "fallback_parser", a validation_errors list, which is empty,
\* and no raw_llm.
C21_NoModelNoGeneration ==
    (ExtractParametersReturned /\ client = "unloaded") =>
        /\ ~gen.called
        /\ FieldsAreFallback(params.v, args.description)
        /\ Source(params.v) = "fallback_parser"
        /\ Kind(params.v["validation_errors"]) = "list"
        /\ Errors(params.v) = <<>>
        /\ "raw_llm" \notin DOMAIN params.v

C21_Witness ==
    /\ ExtractParametersReturned
    /\ client = "unloaded"
    /\ env.transformers
    /\ ~env.torch
    /\ args.front = "cli"
    /\ "width" \in DOMAIN params.v

RECURSIVE ObjectEnd(_, _, _, _)
ObjectEnd(text, i, depth, in_string) ==
    IF i > Len(text) THEN 0
    ELSE IF text[i] = QUOTE
    THEN ObjectEnd(text, i + 1, depth, ~in_string)
    ELSE IF in_string THEN ObjectEnd(text, i + 1, depth, in_string)
    ELSE IF text[i] = LBRACE THEN ObjectEnd(text, i + 1, depth + 1, FALSE)
    ELSE IF text[i] = RBRACE
    THEN IF depth = 1 THEN i ELSE ObjectEnd(text, i + 1, depth - 1, FALSE)
    ELSE ObjectEnd(text, i + 1, depth, FALSE)

FirstOpen(text) == Least({i \in 1..Len(text) : text[i] = LBRACE})
FirstObject(text) ==
    SubSeq(text, FirstOpen(text), ObjectEnd(text, FirstOpen(text), 0, FALSE))
FirstObjectWellFormed(text) ==
    /\ ~NoOpeningBrace(text)
    /\ ObjectEnd(text, FirstOpen(text), 0, FALSE) # 0
    /\ json_loads(FirstObject(text)).ok

C23_FirstObjectRecovered ==
    (Generated /\ FirstObjectWellFormed(gen.outcome.text)) =>
        /\ Extracted.some
        /\ Extracted.v = FirstObject(gen.outcome.text)
        /\ Decoded.ok

\* C24: every ParameterSet that reaches main's validation step, from either
\* extractor, passes validate_params, so the step leaves validation_errors
\* as it was: the integers the patterns captured are non-negative, the type
\* is one of the seven values, features is a list and there is no error key.
AtValidationStep == pc = "validate" /\ args.front = "cli" /\ params.some
PastValidationStep ==
    pc \in {"output", "dxf", "done"} /\ args.front = "cli" /\ params.some

C24_ValidationStepNeverFails ==
    /\ AtValidationStep =>
          /\ validate_params(DictV(params.v), env.jsonschema).is_valid
          /\ "error" \notin DOMAIN params.v
          /\ Val(params.v["type"]) \in
                {"rectangular", "square", "flange", "l_bracket", "t_bracket",
                 "triangular", "unknown"}
          /\ "features" \in DOMAIN params.v =>
                Kind(params.v["features"]) = "list"
          /\ Source(params.v) = "fallback_parser" =>
                \A key \in DOMAIN params.v \ (MetadataKeys
                                                 \cup {"type", "features"}) :
                   Kind(params.v[key]) = "int" /\ Val(params.v[key]) >= 0
    /\ PastValidationStep => Errors(params.v) = pre_errors

C24_Witness ==
    /\ PastValidationStep
    /\ pc = "output"
    /\ ~args.no_validate
    /\ Len(pre_errors) > 0
    /\ "hole_count" \in DOMAIN params.v
    /\ Errors(params.v) = pre_errors

\* C25: for every mapping without an error key _validate_with_jsonschema
\* and _validate_conservative return the same is_valid, booleans in numeric
\* fields and integral reals in hole_count included, so that what
\* validate_params returns does not depend on the jsonschema library being
\* installed.
C25_PathsAgreeOnValidity ==
    (ValidatedDict /\ "error" \notin DOMAIN Given) =>
        /\ _validate_with_jsonschema(Given).is_valid
              = _validate_conservative(Given).is_valid
        /\ call_out.v.is_valid
              = validate_params(call_in.v, ~env.jsonschema).is_valid

\* main has returned
MainReturned == pc = "done" /\ args.front = "cli"
\* the stage of main that raised, if any
ExtractionRaised == MainReturned /\ ~params.some
DrawingRaised == MainReturned /\ dxf.some /\ dxf.v.raised
ValidationReported ==
    /\ params.some
    /\ Errors(params.v) # <<>>

MainExitCode ==
    MainReturned =>
        /\ exit_code \in {Some(EXIT_SUCCESS), Some(EXIT_DXF_ERROR),
                          Some(EXIT_GENERAL_ERROR)}
        /\ exit_code = Some(EXIT_DXF_ERROR) <=> DrawingRaised
        /\ exit_code = Some(EXIT_GENERAL_ERROR) <=> ExtractionRaised
        /\ DrawingRaised => json_output.some /\ json_output = params
        /\ ExtractionRaised => ~json_output.some /\ ~dxf.some
        /\ (params.some /\ ValidationReported) =>
              /\ json_output = params
              /\ exit_code # Some(EXIT_GENERAL_ERROR)
              /\ args.output_dxf =>
                    /\ dxf = Some(create_from_params(params.v))
                    /\ ~dxf.v.raised => exit_code = Some(EXIT_SUCCESS)
              /\ ~args.output_dxf => exit_code = Some(EXIT_SUCCESS)

\* C26: for parsed arguments main returns one of its exit codes, and once the
\* parameters are extracted it does reach its return: EXIT_DXF_ERROR exactly when drawing creation
\* raised, and then the JSON output was emitted before the drawing was
\* attempted; EXIT_GENERAL_ERROR exactly when another stage raised;
\* EXIT_SUCCESS otherwise, also when validation reported errors, whose
\* parameters are still output and passed to drawing.
C26_ExitCodeFollowsStage ==
    /\ []MainExitCode
    /\ (pc = "validate") ~> MainReturned
    /\ [][(pc = "dxf" /\ pc' = "done") =>
             /\ json_output.some
             /\ json_output = params
             /\ json_output' = json_output]_vars

C26_Witness ==
    /\ DrawingRaised
    /\ exit_code = Some(EXIT_DXF_ERROR)
    /\ json_output.some
    /\ Source(json_output.v) = "llm"

\* the drawing of main was attempted on parameters the validator accepts
DrewAccepted ==
    /\ MainReturned
    /\ dxf.some
    /\ validate_params(DictV(params.v), env.jsonschema).is_valid

\* the number of entities the drawing of d is to have
EntityCount(d) ==
    LET has(f) == f \in DOMAIN d
        type == IF has("type") THEN Val(d["type"]) ELSE "rectangular"
    IN  IF type \in {"rectangular", "square"} /\ has("width") /\ has("height")
        THEN 1 + (IF has("hole_diameter") /\ has("corner_offset")
                  THEN 4 ELSE 0)
               + (IF has("center_hole_diameter") THEN 1 ELSE 0)
        ELSE IF type = "flange" /\ has("outer_diameter")
                /\ has("inner_diameter")
        THEN 2 + (IF has("hole_count") /\ has("hole_diameter") /\ has("pcd")
                  THEN Val(d["hole_count"]) ELSE 0)
        ELSE 0

\* C27: for every ParameterSet the validator accepts, create_from_params
\* completes, and it emits one outline plus four corner circles plus one
\* centre circle for a rectangle or square (each part when its fields are
\* present), two circles plus hole_count bolt holes for a flange, for every
\* valid hole_count >= 0, and nothing for another type.
C27_AcceptedParametersAreDrawn ==
    DrewAccepted =>
        /\ ~dxf.v.raised
        /\ Len(dxf.v.entities) = EntityCount(params.v)

\* the words "<name> diameter N" are at position i of the description
DiameterPhrase(name, i) ==
    /\ i + 2 <= Len(Words)
    /\ Words[i] = name
    /\ Words[i + 1] = "diameter"
    /\ Words[i + 2] \in DOMAIN Digits \cup DOMAIN DigitsMm

\* the field is set to the number of such a phrase
SetByPhrase(field, name) ==
    (\E i \in DOMAIN Words : DiameterPhrase(name, i)) =>
        /\ field \in DOMAIN call_out.v
        /\ \E i \in DOMAIN Words :
              /\ DiameterPhrase(name, i)
              /\ call_out.v[field] = IntV(int(Words[i + 2]))

FlangeDescription ==
    <<"circular", "flange", "outer", "diameter", "200mm", "inner",
      "diameter", "100mm", "with", "8", "bolt", "holes">>

\* C28: for a description classified as flange, "outer diameter N" sets
\* outer_diameter = N and "inner diameter N" sets inner_diameter = N, each
\* whether or not the other phrase is there; "circular flange outer diameter
\* 200mm inner diameter 100mm" yields both fields.
C28_FlangeDiametersIndependent ==
    (ParseReturned /\ ParsedType = StrV("flange")) =>
        /\ SetByPhrase("outer_diameter", "outer")
        /\ SetByPhrase("inner_diameter", "inner")
        /\ call_in.v = FlangeDescription =>
              /\ "outer_diameter" \in DOMAIN call_out.v
              /\ "inner_diameter" \in DOMAIN call_out.v

\* the words "N pitch circle" or "N PCD", in any letter case, are at
\* position i of the description
PitchCirclePhrase(i) ==
    /\ Words[i] \in DOMAIN Digits \cup DOMAIN DigitsMm
    /\ \/ /\ i + 2 <= Len(Words)
          /\ Words[i + 1] = "pitch"
          /\ Words[i + 2] = "circle"
       \/ /\ i + 1 <= Len(Words)
          /\ Words[i + 1] = "pcd"

\* C29: whatever the shape type, pcd = N whenever the description has
\* "N pitch circle" or "N PCD" (N with or without mm), in either form and in
\* any letter case, and pcd is absent otherwise.
C29_PitchCircleEitherForm ==
    ParseReturned =>
        IF \E i \in DOMAIN Words : PitchCirclePhrase(i)
        THEN /\ "pcd" \in DOMAIN call_out.v
             /\ \E i \in DOMAIN Words :
                   /\ PitchCirclePhrase(i)
                   /\ call_out.v["pcd"] = IntV(int(Words[i]))
        ELSE "pcd" \notin DOMAIN call_out.v

\* undo() was called right after update_design(p)
UndoAfterUpdate ==
    /\ call_in.some /\ call_in.v.op = "update_design"
    /\ call_in'.some /\ call_in'.v.op = "undo"

\* C30: after any sequence of update_design and undo calls, update_design(p)
\* immediately followed by undo() returns True and leaves current_design and
\* parameters_stack as they were before that update_design; and whenever
\* parameters_stack is non-empty, current_design equals its top entry.
C30_UndoRestoresLastChange ==
    /\ [](parameters_stack # <<>> =>
             current_design = parameters_stack[Len(parameters_stack)])
    /\ [][UndoAfterUpdate =>
             /\ call_out' = Some(TRUE)
             /\ current_design' = call_in.v.design
             /\ parameters_stack' = call_in.v.stack]_vars

==============================================================================
